---- MODULE Spec2Model ----
(***************************************************************************)
(* A model of the Redis exercises of alx-backend-storage:                  *)
(*   0x02-redis_basic/exercise.py  Cache (store/get/get_str/get_int), the  *)
(*                                 count_calls and call_history decorators *)
(*                                 and replay;                             *)
(*   0x02-redis_basic/web.py       RequestCache and the data_cacher        *)
(*                                 wrapper around get_page.                *)
(* The two programs are separate scripts; each has its own specification   *)
(* (Spec for exercise.py, WebSpec for web.py) over its own backend state.  *)
(* Every backend call is one atomic step; a caller's position between two  *)
(* backend calls is its program counter.                                   *)
(***************************************************************************)
EXTENDS Integers, Sequences, FiniteSets, TLC

(***************************************************************************)
(* Bounds of the model.                                                    *)
(***************************************************************************)
\* Size of the pool uuid.uuid4() draws from; every store call uses one up.
MaxKeys == 2

\* The concurrent callers (threads, processes, service instances).
Callers == {"c1", "c2"}

(***************************************************************************)
(* Python values and call outcomes.                                        *)
(***************************************************************************)
PyNone == [t |-> "None"]
PyBytes(b) == [t |-> "bytes", b |-> b]
PyStr(s) == [t |-> "str", s |-> s]
PyInt(n) == [t |-> "int", n |-> n]

Ok(v) == [status |-> "ok", val |-> v]
Raise(e) == [status |-> e]
NoResult == [status |-> "none"]

\* The values the callers store: a text with a non-ASCII character (as
\* code points), a negative int of two digits, and bytes that are no UTF-8.
Data == {PyStr(<<102, 233>>), PyInt(-12), PyBytes(<<255>>)}

(***************************************************************************)
(* Text and byte conversions, computed as Python and redis-py compute them.*)
(***************************************************************************)
RECURSIVE DecDigits(_)
\* The decimal digits of n >= 0 as ASCII codes.
DecDigits(n) ==
  IF n < 10 THEN <<48 + n>> ELSE DecDigits(n \div 10) \o <<48 + (n % 10)>>

\* repr(n) of an int: a '-' sign for negatives, then the digits.
IntRepr(n) == IF n < 0 THEN <<45>> \o DecDigits(0 - n) ELSE DecDigits(n)

RECURSIVE Utf8Encode(_)
\* str.encode('utf-8') for code points below 2048.
Utf8Encode(s) ==
  IF s = << >> THEN << >>
  ELSE (IF Head(s) < 128 THEN <<Head(s)>>
        ELSE <<192 + (Head(s) \div 64), 128 + (Head(s) % 64)>>)
       \o Utf8Encode(Tail(s))

RECURSIVE Utf8Decode(_)
\* bytes.decode('utf-8'): Ok(text) or UnicodeDecodeError.
Utf8Decode(b) ==
  IF b = << >> THEN Ok(<< >>)
  ELSE IF Head(b) < 128
    THEN LET r == Utf8Decode(Tail(b))
         IN IF r.status = "ok" THEN Ok(<<Head(b)>> \o r.val) ELSE r
  ELSE IF /\ Head(b) >= 194 /\ Head(b) <= 223 /\ Len(b) >= 2
          /\ b[2] >= 128 /\ b[2] <= 191
    THEN LET r == Utf8Decode(Tail(Tail(b)))
         IN IF r.status = "ok"
            THEN Ok(<<(Head(b) - 192) * 64 + (b[2] - 128)>> \o r.val)
            ELSE r
  ELSE Raise("UnicodeDecodeError")

IsDigits(b) == Len(b) >= 1 /\ \A i \in 1..Len(b) : b[i] >= 48 /\ b[i] <= 57

RECURSIVE DigitsValue(_)
DigitsValue(b) ==
  IF b = << >> THEN 0
  ELSE DigitsValue(SubSeq(b, 1, Len(b) - 1)) * 10 + (b[Len(b)] - 48)

\* int(b) of a bytes object: an optional sign and decimal digits, else
\* ValueError.
ParseInt(b) ==
  IF b # << >> /\ (Head(b) = 45 \/ Head(b) = 43)
  THEN IF IsDigits(Tail(b))
       THEN Ok(IF Head(b) = 45 THEN 0 - DigitsValue(Tail(b))
               ELSE DigitsValue(Tail(b)))
       ELSE Raise("ValueError")
  ELSE IF IsDigits(b) THEN Ok(DigitsValue(b)) ELSE Raise("ValueError")

\* The bytes redis-py sends for a value: bytes as they are, text as UTF-8,
\* an int as its repr.
Encode(v) ==
  CASE v.t = "bytes" -> v.b
    [] v.t = "str" -> Utf8Encode(v.s)
    [] v.t = "int" -> IntRepr(v.n)

HexDigit(d) == IF d < 10 THEN 48 + d ELSE 87 + d

RECURSIVE BytesReprBody(_)
\* The inside of repr(b'...'): printable ASCII as itself, the rest \xhh.
BytesReprBody(b) ==
  IF b = << >> THEN << >>
  ELSE (IF Head(b) >= 32 /\ Head(b) <= 126 /\ Head(b) # 39 /\ Head(b) # 92
        THEN <<Head(b)>>
        ELSE <<92, 120, HexDigit(Head(b) \div 16), HexDigit(Head(b) % 16)>>)
       \o BytesReprBody(Tail(b))

\* repr(v) as code points.
Repr(v) ==
  CASE v.t = "bytes" -> <<98, 39>> \o BytesReprBody(v.b) \o <<39>>
    [] v.t = "str" -> <<39>> \o v.s \o <<39>>
    [] v.t = "int" -> IntRepr(v.n)

\* str(args) of the one-element tuple (data,): "(" repr(data) ",)".
StrArgs(data) == <<40>> \o Repr(data) \o <<44, 41>>

\* str(uuid.uuid4()) of the n-th identifier of the pool.
UuidStr(n) == <<117>> \o DecDigits(n)


(***************************************************************************)
(* exercise.py: the state.                                                 *)
(***************************************************************************)
VARIABLES
  db,        \* the Redis database of exercise.py
  pc,        \* each caller's position in exercise.py
  frame,     \* each caller's local variables
  last,      \* the operation that finished last, until the next one starts:
             \* what it returned or raised and, for replay, the handle it
             \* was given, the lines it printed and the number of backend
             \* commands it issued
  usedKeys,  \* the identifiers uuid4() has produced so far
  issued,    \* key -> the values set under it since the last flushdb
  ncalls,    \* entries into count_calls.invoker since the last flushdb
  completed, \* (args, result) of the store calls that returned since the
             \* last flushdb, in the order they returned
  started    \* the arguments of the store calls that logged them since the
             \* last flushdb, in the order they did

storeVars ==
  <<db, pc, frame, last, usedKeys, issued, ncalls, completed, started>>

\* method.__qualname__ of the decorated method and the two list keys.
QualName == "Cache.store"
InKey == "Cache.store:inputs"
OutKey == "Cache.store:outputs"

KeyStrs == {UuidStr(n) : n \in 1..MaxKeys}

\* The database after flushdb: no string key, no counter, no list.
EmptyDb ==
  [data |-> << >>, calls |-> PyNone, inputs |-> << >>, outputs |-> << >>]

NoFrame ==
  [data |-> PyNone, key |-> << >>, cnt |-> 0, ins |-> << >>, h |-> "none",
   cmds |-> 0]

Finished(op, k, raw, out, lines) ==
  [op |-> op, key |-> k, raw |-> raw, out |-> out, lines |-> lines,
   handle |-> "none", cmds |-> 0]

NoLast == Finished("none", << >>, PyNone, NoResult, << >>)

(***************************************************************************)
(* The Redis commands exercise.py issues.                                  *)
(***************************************************************************)
\* GET key: the bytes stored, or None.
RedisGet(d, k) == IF k \in DOMAIN d.data THEN PyBytes(d.data[k]) ELSE PyNone

\* SET key value: overwrites unconditionally.
RedisSet(d, k, b) ==
  [d EXCEPT !.data = [x \in DOMAIN d.data \cup {k} |->
                        IF x = k THEN b ELSE d.data[x]]]

\* INCR of the call counter: an absent key counts as 0; the new value is
\* stored as its decimal text.
RedisIncr(d) ==
  LET old == IF d.calls = PyNone THEN 0 ELSE ParseInt(d.calls.b).val
  IN [d EXCEPT !.calls = PyBytes(IntRepr(old + 1))]

\* EXISTS and GET of the call counter key.
RedisExistsCalls(d) == IF d.calls = PyNone THEN 0 ELSE 1
RedisGetCalls(d) == d.calls

\* RPUSH to the input list.
RedisRPushIn(d, b) == [d EXCEPT !.inputs = Append(@, b)]

\* LPUSH to the output list: the new entry comes first.
RedisLPushOut(d, b) == [d EXCEPT !.outputs = <<b>> \o @]

\* RPUSH to the output list.
RedisRPushOut(d, b) == [d EXCEPT !.outputs = Append(@, b)]

\* LRANGE key 0 -1: the whole list.
RedisLRangeIn(d) == d.inputs
RedisLRangeOut(d) == d.outputs

(***************************************************************************)
(* exercise.py: the pure parts of Cache.get, get_str, get_int and replay.  *)
(***************************************************************************)
\* The conversion functions handed to Cache.get: none, x.decode('utf-8')
\* (get_str) and int(x) (get_int), applied to what Redis returned.
ApplyFn(fn, data) ==
  CASE fn = "none" -> Ok(data)
    [] fn = "decode" ->
         IF data = PyNone THEN Raise("AttributeError")
         ELSE LET r == Utf8Decode(data.b)
              IN IF r.status = "ok" THEN Ok(PyStr(r.val)) ELSE r
    [] fn = "int" ->
         IF data = PyNone THEN Raise("TypeError")
         ELSE LET r == ParseInt(data.b)
              IN IF r.status = "ok" THEN Ok(PyInt(r.val)) ELSE r

\* Cache.get applying fn only to a value that is there.
Cache_get_skips_none(d, k, fn) ==
  IF RedisGet(d, k) = PyNone THEN Ok(PyNone) ELSE ApplyFn(fn, RedisGet(d, k))

\* Cache.get: fn(data) if fn is not None else data.
Cache_get(d, k, fn) == ApplyFn(fn, RedisGet(d, k))

get_str(d, k) == Cache_get(d, k, "decode")

\* get_int with the conversion of get_str (decode, no int).
get_int_decodes(d, k) == Cache_get(d, k, "decode")

get_int(d, k) == Cache_get(d, k, "int")

\* The counter as replay reads it, lines 107-109: 0 unless the key exists.
CallCount(d) ==
  IF RedisExistsCalls(d) # 0 THEN ParseInt(RedisGetCalls(d).b).val ELSE 0

Min(a, b) == IF a < b THEN a ELSE b

\* The header line replay prints: the name and the count.
HeaderLine(cnt) == [input |-> << >>, output |-> IntRepr(cnt)]

\* The call lines replay prints: zip(inputs, outputs), the input decoded,
\* the output formatted as the bytes object it is.
ReplayLines(ins, outs) ==
  [i \in 1..Min(Len(ins), Len(outs)) |->
     [input |-> Utf8Decode(ins[i]).val, output |-> Repr(PyBytes(outs[i]))]]

(***************************************************************************)
(* exercise.py: the operations, one action per backend call.               *)
(***************************************************************************)
Init ==
  /\ db = EmptyDb
  /\ pc = [p \in Callers |-> "idle"]
  /\ frame = [p \in Callers |-> NoFrame]
  /\ last = NoLast
  /\ usedKeys = {}
  /\ issued = << >>
  /\ ncalls = 0
  /\ completed = << >>
  /\ started = << >>

\* Store calls that have not yet drawn their uuid.
BeforeBody == {p \in Callers : pc[p] \in {"count", "body"}}

\* Cache() without the flushdb: the new client finds what is there.
Cache_init_keeps(p) ==
  /\ pc[p] = "idle"
  /\ last' = Finished("Cache", << >>, PyNone, Ok(PyNone), << >>)
  /\ UNCHANGED <<db, pc, frame, usedKeys, issued, ncalls, completed,
              started>>

\* Cache(): a new client on the shared database, then flushdb.
Cache_init(p) ==
  /\ pc[p] = "idle"
  /\ db' = EmptyDb
  /\ issued' = << >>
  /\ ncalls' = 0
  /\ completed' = << >>
  /\ started' = << >>
  /\ last' = Finished("Cache", << >>, PyNone, Ok(PyNone), << >>)
  /\ UNCHANGED <<pc, frame, usedKeys>>

\* call_history.invoker calling the method before it logs the arguments.
call_history_pre_calls_first(p, data) ==
  /\ pc[p] = "idle"
  /\ Cardinality(usedKeys) + Cardinality(BeforeBody) < MaxKeys
  /\ pc' = [pc EXCEPT ![p] = "count"]
  /\ frame' = [frame EXCEPT ![p] = [NoFrame EXCEPT !.data = data]]
  /\ last' = NoLast
  /\ UNCHANGED <<db, usedKeys, issued, ncalls, completed,
              started>>

\* call_history.invoker up to the call of the wrapped method: rpush of
\* str(args) to the input list.
call_history_pre(p, data) ==
  /\ pc[p] = "idle"
  /\ Cardinality(usedKeys) + Cardinality(BeforeBody) < MaxKeys
  /\ db' = RedisRPushIn(db, Utf8Encode(StrArgs(data)))
  /\ started' = Append(started, data)
  /\ pc' = [pc EXCEPT ![p] = "count"]
  /\ frame' = [frame EXCEPT ![p] = [NoFrame EXCEPT !.data = data]]
  /\ last' = NoLast
  /\ UNCHANGED <<usedKeys, issued, ncalls, completed>>

\* count_calls.invoker writing a 1 with set instead of calling incr.
count_calls_sets(p) ==
  /\ pc[p] = "count"
  /\ db' = [db EXCEPT !.calls = PyBytes(IntRepr(1))]
  /\ ncalls' = ncalls + 1
  /\ pc' = [pc EXCEPT ![p] = "body"]
  /\ UNCHANGED <<frame, last, usedKeys, issued, completed,
              started>>

\* count_calls.invoker: incr of the counter, then the call of the method.
count_calls_invoker(p) ==
  /\ pc[p] = "count"
  /\ db' = RedisIncr(db)
  /\ ncalls' = ncalls + 1
  /\ pc' = [pc EXCEPT ![p] = "body"]
  /\ UNCHANGED <<frame, last, usedKeys, issued, completed,
              started>>

\* uuid.uuid4() as a generator that can repeat itself.
uuid4_repeats == KeyStrs

\* uuid.uuid4(): an identifier never produced before; the n-th call
\* produces the n-th identifier of the pool.
uuid4 == {UuidStr(Cardinality(usedKeys) + 1)} \ usedKeys

\* Cache.store: a fresh key, set(key, data), return the key.
Cache_store(p) ==
  /\ pc[p] = "body"
  /\ \E k \in uuid4 :
       /\ db' = RedisSet(db, k, Encode(frame[p].data))
       /\ usedKeys' = usedKeys \cup {k}
       /\ issued' = [x \in DOMAIN issued \cup {k} |->
                       IF x \in DOMAIN issued
                       THEN (IF x = k THEN Append(issued[x], frame[p].data)
                             ELSE issued[x])
                       ELSE <<frame[p].data>>]
       /\ frame' = [frame EXCEPT ![p].key = k]
  /\ pc' = [pc EXCEPT ![p] = "post"]
  /\ UNCHANGED <<last, ncalls, completed,
              started>>

\* Cache.store when the backend refuses the set: the error leaves
\* count_calls.invoker and call_history.invoker, which catch nothing.
Cache_store_error(p) ==
  /\ pc[p] = "body"
  /\ \E k \in uuid4 : usedKeys' = usedKeys \cup {k}
  /\ pc' = [pc EXCEPT ![p] = "idle"]
  /\ last' = Finished("store", << >>, PyNone, Raise("RedisError"), << >>)
  /\ frame' = [frame EXCEPT ![p] = NoFrame]
  /\ UNCHANGED <<db, issued, ncalls, completed,
              started>>

\* call_history.invoker after the method returned: rpush of the output,
\* return it.
call_history_post(p) ==
  /\ pc[p] = "post"
  /\ db' = RedisRPushOut(db, Utf8Encode(frame[p].key))
  /\ completed' =
       Append(completed, [args |-> frame[p].data, result |-> frame[p].key])
  /\ last' = Finished("store", << >>, PyNone, Ok(PyStr(frame[p].key)), << >>)
  /\ pc' = [pc EXCEPT ![p] = "idle"]
  /\ frame' = [frame EXCEPT ![p] = NoFrame]
  /\ UNCHANGED <<usedKeys, issued, ncalls, started>>

\* Cache.get, get_str and get_int: one GET, then the conversion.
Retrieve(p, k, fn) ==
  /\ pc[p] = "idle"
  /\ last' = Finished(CASE fn = "none" -> "get"
                        [] fn = "decode" -> "get_str"
                        [] fn = "int" -> "get_int",
                      k, RedisGet(db, k), Cache_get(db, k, fn), << >>)
  /\ UNCHANGED <<db, pc, frame, usedKeys, issued, ncalls, completed,
              started>>

\* The handles replay can be given: the bound method cache.store, None, the
\* plain function Cache.store (no __self__), and a method bound to an object
\* whose _redis is not a redis.Redis.
Handles == {"bound", "null", "unbound", "foreign"}

\* replay issuing its backend calls without the checks of lines 99-103.
replay_exists_unchecked(p, h) ==
  /\ pc[p] = "idle"
  /\ pc' = [pc EXCEPT ![p] =
               IF RedisExistsCalls(db) # 0 THEN "rp_get" ELSE "rp_in"]
  /\ frame' = [frame EXCEPT ![p] = [NoFrame EXCEPT !.h = h, !.cmds = 1]]
  /\ last' = NoLast
  /\ UNCHANGED <<db, usedKeys, issued, ncalls, completed,
              started>>

\* replay, lines 99-108: the checks of the handle, which end the call
\* before any backend command, then exists(fxn_name).
replay_exists(p, h) ==
  /\ pc[p] = "idle"
  /\ IF h # "bound"
     THEN /\ last' = [Finished("replay", << >>, PyNone, Ok(PyNone), << >>)
                       EXCEPT !.handle = h]
          /\ UNCHANGED <<pc, frame>>
     ELSE /\ pc' = [pc EXCEPT ![p] =
                      IF RedisExistsCalls(db) # 0 THEN "rp_get" ELSE "rp_in"]
          /\ frame' = [frame EXCEPT ![p] = [NoFrame EXCEPT !.h = h, !.cmds = 1]]
          /\ last' = NoLast
  /\ UNCHANGED <<db, usedKeys, issued, ncalls, completed,
              started>>

\* replay, line 109: int(redis_store.get(fxn_name)).
replay_get(p) ==
  /\ pc[p] = "rp_get"
  /\ IF RedisGetCalls(db) = PyNone
     THEN /\ last' = [Finished("replay", << >>, PyNone, Raise("TypeError"),
                                << >>)
                       EXCEPT !.handle = frame[p].h,
                              !.cmds = frame[p].cmds + 1]
          /\ pc' = [pc EXCEPT ![p] = "idle"]
          /\ frame' = [frame EXCEPT ![p] = NoFrame]
     ELSE /\ frame' =
               [frame EXCEPT ![p].cnt = ParseInt(RedisGetCalls(db).b).val,
                             ![p].cmds = @ + 1]
          /\ pc' = [pc EXCEPT ![p] = "rp_in"]
          /\ UNCHANGED last
  /\ UNCHANGED <<db, usedKeys, issued, ncalls, completed,
              started>>

\* replay, lines 110-111: the header line is printed, then lrange of the
\* inputs.
replay_inputs(p) ==
  /\ pc[p] = "rp_in"
  /\ frame' = [frame EXCEPT ![p].ins = RedisLRangeIn(db), ![p].cmds = @ + 1]
  /\ pc' = [pc EXCEPT ![p] = "rp_out"]
  /\ UNCHANGED <<db, last, usedKeys, issued, ncalls, completed,
              started>>

\* replay, lines 112-118: lrange of the outputs, then one line per pair.
replay_outputs(p) ==
  /\ pc[p] = "rp_out"
  /\ last' = [Finished("replay", << >>, PyNone, Ok(PyNone),
                       <<HeaderLine(frame[p].cnt)>>
                         \o ReplayLines(frame[p].ins, RedisLRangeOut(db)))
              EXCEPT !.handle = frame[p].h, !.cmds = frame[p].cmds + 1]
  /\ pc' = [pc EXCEPT ![p] = "idle"]
  /\ frame' = [frame EXCEPT ![p] = NoFrame]
  /\ UNCHANGED <<db, usedKeys, issued, ncalls, completed,
              started>>

(***************************************************************************)
(* web.py: the state.                                                      *)
(***************************************************************************)
VARIABLES
  wdb,     \* the Redis database of web.py: key -> [val, ttl]
  wpc,     \* each caller's position in the data_cacher wrapper
  wframe,  \* each caller's local variables in the wrapper
  wlast,   \* the get_page call that finished last, until the next one
           \* starts: its url, what it returned or raised, what
           \* increment_count had returned to it, the writers of the
           \* entry it saw at its lookup and at its own write and, for a
           \* call whose fetch failed, the database as the call found it
  pop      \* per url: who last wrote the result entry, what was written,
           \* the calls of the wrapped method and the get_page calls that
           \* ended since that write, the seconds passed since that write
           \* (up to expiration_time), and the contents served from the
           \* entry since it last became present

webVars == <<wdb, wpc, wframe, wlast, pop>>

vars == <<storeVars, webVars>>

\* CacheConfig: the defaults.
expiration_time == 10
prefix_count == "count"
prefix_result == "result"

\* The seconds that pass in one step of the clock.
TickLen == expiration_time \div 2

\* A call of the wrapper starts only while the request counter of its url
\* is below this value.
MaxCount == 2

Urls == {"u", "v"}

\* The url the concurrent callers of WebSpec contend for.
HotUrls == {"u"}

\* The bodies get_page can receive: empty, "X", and a non-ASCII character.
Contents == {<< >>, <<88>>, <<233>>}

\* RequestCache._make_key: f"{prefix}:{url}".
make_key(prefix, url) == <<prefix, url>>

NoPop ==
  [by |-> "none", content |-> << >>, fetches |-> 0, gets |-> 0, age |-> 0,
   served |-> {}]

NoWFrame ==
  [url |-> "", incr |-> 0, raw |-> PyNone, result |-> PyNone, saw |-> "none",
   pre |-> << >>]

WFinished(url, path, out, incr, raw, saw, over) ==
  [url |-> url, path |-> path, out |-> out, incr |-> incr, raw |-> raw,
   saw |-> saw, over |-> [by |-> over.by, content |-> over.content],
   pre |-> << >>]

NoWLast == WFinished("", "none", NoResult, 0, PyNone, "none", NoPop)

(***************************************************************************)
(* The Redis commands web.py issues.  ttl is the number of seconds a key   *)
(* has left, -1 for a key without expiry.                                  *)
(***************************************************************************)
Put(d, k, e) == [x \in DOMAIN d \cup {k} |-> IF x = k THEN e ELSE d[x]]

WebGet(d, k) == IF k \in DOMAIN d THEN PyBytes(d[k].val) ELSE PyNone

\* INCR: an absent key counts as 0; the expiry of the key is kept.
WebIncr(d, k) ==
  IF k \in DOMAIN d
  THEN Put(d, k, [val |-> IntRepr(ParseInt(d[k].val).val + 1),
                  ttl |-> d[k].ttl])
  ELSE Put(d, k, [val |-> IntRepr(1), ttl |-> -1])

\* SET: overwrites, the key has no expiry afterwards.
WebSet(d, k, b) == Put(d, k, [val |-> b, ttl |-> -1])

\* SETEX: overwrites, the key expires after secs seconds.
WebSetex(d, k, secs, b) == Put(d, k, [val |-> b, ttl |-> secs])

\* secs seconds pass: every expiring key has that much less, and a key
\* with nothing left is gone.
Elapse(d, secs) ==
  [k \in {x \in DOMAIN d : d[x].ttl = -1 \/ d[x].ttl > secs} |->
     IF d[k].ttl = -1 THEN d[k] ELSE [d[k] EXCEPT !.ttl = @ - secs]]

\* The key of the result entry of url, and whether Redis holds it.
ResultKey(url) == make_key(prefix_result, url)
EntryPresent(d, url) == ResultKey(url) \in DOMAIN d

\* The value of the request counter of url, 0 when absent.
CountOf(d, url) ==
  LET k == make_key(prefix_count, url)
  IN IF k \in DOMAIN d THEN ParseInt(d[k].val).val ELSE 0

(***************************************************************************)
(* web.py: the operations, one action per backend call or fetch.           *)
(***************************************************************************)
WebInit ==
  /\ wdb = << >>
  /\ wpc = [p \in Callers |-> "idle"]
  /\ wframe = [p \in Callers |-> NoWFrame]
  /\ wlast = NoWLast
  /\ pop = [u \in Urls |-> NoPop]

\* increment_count writing a 1 with set instead of calling incr.
increment_count_sets(p, url) ==
  /\ wpc[p] = "idle"
  /\ CountOf(wdb, url) < MaxCount
  /\ wdb' = WebSet(wdb, make_key(prefix_count, url), IntRepr(1))
  /\ wframe' = [wframe EXCEPT ![p] =
                  [NoWFrame EXCEPT !.url = url,
                                   !.incr = CountOf(wdb', url),
                                   !.pre = wdb]]
  /\ wpc' = [wpc EXCEPT ![p] = "lookup"]
  /\ wlast' = NoWLast
  /\ UNCHANGED pop

\* wrapper, line 143: cache.increment_count(url).
increment_count(p, url) ==
  /\ wpc[p] = "idle"
  /\ CountOf(wdb, url) < MaxCount
  /\ wdb' = WebIncr(wdb, make_key(prefix_count, url))
  /\ wframe' = [wframe EXCEPT ![p] =
                  [NoWFrame EXCEPT !.url = url,
                                   !.incr = CountOf(wdb', url),
                                   !.pre = wdb]]
  /\ wpc' = [wpc EXCEPT ![p] = "lookup"]
  /\ wlast' = NoWLast
  /\ UNCHANGED pop

\* get_cached_result decoding the entry as latin-1, one character a byte.
cached_value_latin1(raw) ==
  IF raw # PyNone /\ raw.b # << >> THEN PyStr(raw.b) ELSE PyNone

\* get_cached_result, line 87: result.decode('utf-8') if result else None.
cached_value(raw) ==
  IF raw # PyNone /\ raw.b # << >> THEN PyStr(Utf8Decode(raw.b).val)
  ELSE PyNone

\* The lookup renewing the expiry of the entry it returns (a sliding ttl).
get_cached_result_slides(p) ==
  /\ wpc[p] = "lookup"
  /\ LET url == wframe[p].url
         raw == WebGet(wdb, make_key(prefix_result, url))
         c == cached_value(raw)
     IN IF c # PyNone
        THEN /\ wdb' = WebSetex(wdb, make_key(prefix_result, url),
                                expiration_time, raw.b)
             /\ wlast' = WFinished(url, "hit", Ok(c), wframe[p].incr, raw,
                                   pop[url].by, pop[url])
             /\ pop' = [pop EXCEPT ![url].served = @ \cup {c.s},
                                   ![url].gets = @ + 1]
             /\ wpc' = [wpc EXCEPT ![p] = "idle"]
             /\ wframe' = [wframe EXCEPT ![p] = NoWFrame]
        ELSE /\ wframe' = [wframe EXCEPT ![p].raw = raw,
                                         ![p].saw = pop[url].by]
             /\ wpc' = [wpc EXCEPT ![p] = "fetch"]
             /\ UNCHANGED <<wlast, pop, wdb>>

\* wrapper, lines 146-148: the lookup; a value other than None is returned.
get_cached_result(p) ==
  /\ wpc[p] = "lookup"
  /\ LET url == wframe[p].url
         raw == WebGet(wdb, make_key(prefix_result, url))
         c == cached_value(raw)
     IN IF c # PyNone
        THEN /\ wlast' = WFinished(url, "hit", Ok(c), wframe[p].incr, raw,
                                   pop[url].by, pop[url])
             /\ pop' = [pop EXCEPT ![url].served = @ \cup {c.s},
                                   ![url].gets = @ + 1]
             /\ wpc' = [wpc EXCEPT ![p] = "idle"]
             /\ wframe' = [wframe EXCEPT ![p] = NoWFrame]
        ELSE /\ wframe' = [wframe EXCEPT ![p].raw = raw,
                                         ![p].saw = pop[url].by]
             /\ wpc' = [wpc EXCEPT ![p] = "fetch"]
             /\ UNCHANGED <<wlast, pop>>
  /\ UNCHANGED wdb

\* wrapper, line 151: method(url), get_page returning the body.
get_page(p, body) ==
  /\ wpc[p] = "fetch"
  /\ wframe' = [wframe EXCEPT ![p].result = PyStr(body), ![p].pre = << >>]
  /\ pop' = [pop EXCEPT ![wframe[p].url].fetches = @ + 1]
  /\ wpc' = [wpc EXCEPT ![p] = "reset"]
  /\ UNCHANGED <<wdb, wlast>>

\* The wrapper caching an empty result when get_page raises.
get_page_error_caches(p) ==
  /\ wpc[p] = "fetch"
  /\ pop' = [pop EXCEPT ![wframe[p].url].fetches = @ + 1,
                         ![wframe[p].url].gets = @ + 1]
  /\ wdb' = WebSetex(WebSet(wdb, make_key(prefix_count, wframe[p].url),
                            IntRepr(0)),
                     make_key(prefix_result, wframe[p].url), expiration_time,
                     << >>)
  /\ wlast' = WFinished(wframe[p].url, "error", Raise("RequestException"),
                        wframe[p].incr, wframe[p].raw, wframe[p].saw,
                        pop[wframe[p].url])
  /\ wpc' = [wpc EXCEPT ![p] = "idle"]
  /\ wframe' = [wframe EXCEPT ![p] = NoWFrame]

\* The wrapper dropping the entry of the url when get_page raises.
get_page_error_deletes(p) ==
  /\ wpc[p] = "fetch"
  /\ pop' = [pop EXCEPT ![wframe[p].url].fetches = @ + 1,
                         ![wframe[p].url].gets = @ + 1]
  /\ wdb' = [k \in DOMAIN wdb \ {make_key(prefix_result, wframe[p].url)} |->
               wdb[k]]
  /\ wlast' = [WFinished(wframe[p].url, "error", Raise("RequestException"),
                         wframe[p].incr, wframe[p].raw, wframe[p].saw,
                         pop[wframe[p].url])
               EXCEPT !.pre = wframe[p].pre]
  /\ wpc' = [wpc EXCEPT ![p] = "idle"]
  /\ wframe' = [wframe EXCEPT ![p] = NoWFrame]

\* wrapper, line 151: get_page raising (requests.get or raise_for_status);
\* the wrapper catches nothing.
get_page_error(p) ==
  /\ wpc[p] = "fetch"
  /\ pop' = [pop EXCEPT ![wframe[p].url].fetches = @ + 1,
                         ![wframe[p].url].gets = @ + 1]
  /\ wlast' = [WFinished(wframe[p].url, "error", Raise("RequestException"),
                         wframe[p].incr, wframe[p].raw, wframe[p].saw,
                         pop[wframe[p].url])
               EXCEPT !.pre = wframe[p].pre]
  /\ wpc' = [wpc EXCEPT ![p] = "idle"]
  /\ wframe' = [wframe EXCEPT ![p] = NoWFrame]
  /\ UNCHANGED wdb

\* cache_result without the reset of the counter.
cache_result_no_reset(p) ==
  /\ wpc[p] = "reset"
  /\ wpc' = [wpc EXCEPT ![p] = "setex"]
  /\ UNCHANGED <<wdb, wframe, wlast, pop>>

\* cache_result, line 101: set(count_key, 0).
cache_result_set(p) ==
  /\ wpc[p] = "reset"
  /\ wdb' = WebSet(wdb, make_key(prefix_count, wframe[p].url), IntRepr(0))
  /\ wpc' = [wpc EXCEPT ![p] = "setex"]
  /\ UNCHANGED <<wframe, wlast, pop>>

\* cache_result writing the entry only when there is none (SET NX EX).
cache_result_setnx(p) ==
  /\ wpc[p] = "setex"
  /\ LET url == wframe[p].url
     IN /\ wdb' = IF EntryPresent(wdb, url) THEN wdb
                  ELSE WebSetex(wdb, make_key(prefix_result, url),
                                expiration_time,
                                Utf8Encode(wframe[p].result.s))
        /\ pop' = [pop EXCEPT ![url] =
                     [by |-> p, content |-> wframe[p].result.s, fetches |-> 0,
                      gets |-> 0, age |-> 0,
                      served |-> IF EntryPresent(wdb, url) THEN pop[url].served
                                 ELSE {}]]
        /\ wlast' = WFinished(url, "miss", Ok(wframe[p].result),
                              wframe[p].incr, wframe[p].raw, wframe[p].saw,
                              pop[url])
  /\ wpc' = [wpc EXCEPT ![p] = "idle"]
  /\ wframe' = [wframe EXCEPT ![p] = NoWFrame]

\* cache_result, lines 102-106: setex(result_key, 10 s, content); the
\* wrapper then returns the result.
cache_result_setex(p) ==
  /\ wpc[p] = "setex"
  /\ LET url == wframe[p].url
     IN /\ wdb' = WebSetex(wdb, make_key(prefix_result, url), expiration_time,
                           Utf8Encode(wframe[p].result.s))
        /\ pop' = [pop EXCEPT ![url] =
                     [by |-> p, content |-> wframe[p].result.s, fetches |-> 0,
                      gets |-> 0, age |-> 0,
                      served |-> IF EntryPresent(wdb, url) THEN pop[url].served
                                 ELSE {}]]
        /\ wlast' = WFinished(url, "miss", Ok(wframe[p].result),
                              wframe[p].incr, wframe[p].raw, wframe[p].saw,
                              pop[url])
  /\ wpc' = [wpc EXCEPT ![p] = "idle"]
  /\ wframe' = [wframe EXCEPT ![p] = NoWFrame]

\* Time passes on the backend.
Tick ==
  /\ \E k \in DOMAIN wdb : wdb[k].ttl # -1
  /\ wdb' = Elapse(wdb, TickLen)
  /\ pop' = [u \in Urls |->
               IF pop[u].by = "none" THEN pop[u]
               ELSE [pop[u] EXCEPT
                       !.age = Min(@ + TickLen, expiration_time)]]
  /\ UNCHANGED <<wpc, wframe, wlast>>

(***************************************************************************)
(* The specifications.                                                     *)
(***************************************************************************)
Fns == {"none", "decode", "int"}

FullInit == Init /\ WebInit

\* No caller but p is inside an operation of exercise.py, of web.py.
Alone(p) == \A q \in Callers \ {p} : pc[q] = "idle"
WebAlone(p) == \A q \in Callers \ {p} : wpc[q] = "idle"

\* exercise.py with concurrent callers on one database.
Next ==
  \/ \E p \in Callers : Cache_init(p) /\ UNCHANGED webVars
  \/ \E p \in Callers, data \in Data : call_history_pre(p, data) /\ UNCHANGED webVars
  \/ \E p \in Callers : count_calls_invoker(p) /\ UNCHANGED webVars
  \/ \E p \in Callers : Cache_store(p) /\ UNCHANGED webVars
  \/ \E p \in Callers : Cache_store_error(p) /\ UNCHANGED webVars
  \/ \E p \in Callers : call_history_post(p) /\ UNCHANGED webVars
  \/ \E p \in Callers, k \in KeyStrs, fn \in Fns : Retrieve(p, k, fn) /\ UNCHANGED webVars
  \/ \E p \in Callers, h \in Handles : replay_exists(p, h) /\ UNCHANGED webVars
  \/ \E p \in Callers : replay_get(p) /\ UNCHANGED webVars
  \/ \E p \in Callers : replay_inputs(p) /\ UNCHANGED webVars
  \/ \E p \in Callers : replay_outputs(p) /\ UNCHANGED webVars
Spec == FullInit /\ [][Next]_vars

\* exercise.py with one caller at a time: an operation starts when no other
\* is under way.
SeqNext ==
  \/ \E p \in Callers : Alone(p) /\ Cache_init(p) /\ UNCHANGED webVars
  \/ \E p \in Callers, data \in Data : Alone(p) /\ call_history_pre(p, data) /\ UNCHANGED webVars
  \/ \E p \in Callers : Alone(p) /\ count_calls_invoker(p) /\ UNCHANGED webVars
  \/ \E p \in Callers : Alone(p) /\ Cache_store(p) /\ UNCHANGED webVars
  \/ \E p \in Callers : Alone(p) /\ Cache_store_error(p) /\ UNCHANGED webVars
  \/ \E p \in Callers : Alone(p) /\ call_history_post(p) /\ UNCHANGED webVars
  \/ \E p \in Callers, k \in KeyStrs, fn \in Fns : Alone(p) /\ Retrieve(p, k, fn) /\ UNCHANGED webVars
  \/ \E p \in Callers, h \in Handles : Alone(p) /\ replay_exists(p, h) /\ UNCHANGED webVars
  \/ \E p \in Callers : Alone(p) /\ replay_get(p) /\ UNCHANGED webVars
  \/ \E p \in Callers : Alone(p) /\ replay_inputs(p) /\ UNCHANGED webVars
  \/ \E p \in Callers : Alone(p) /\ replay_outputs(p) /\ UNCHANGED webVars
SeqSpec == FullInit /\ [][SeqNext]_vars

\* web.py with concurrent callers of get_page for one url.
WebNext ==
  \/ \E p \in Callers, url \in HotUrls : increment_count(p, url) /\ UNCHANGED storeVars
  \/ \E p \in Callers : get_cached_result(p) /\ UNCHANGED storeVars
  \/ \E p \in Callers, body \in Contents : get_page(p, body) /\ UNCHANGED storeVars
  \/ \E p \in Callers : get_page_error(p) /\ UNCHANGED storeVars
  \/ \E p \in Callers : cache_result_set(p) /\ UNCHANGED storeVars
  \/ \E p \in Callers : cache_result_setex(p) /\ UNCHANGED storeVars
  \/ Tick /\ UNCHANGED storeVars
WebSpec == FullInit /\ [][WebNext]_vars

\* web.py with one caller at a time.
WebSeqNext ==
  \/ \E p \in Callers, url \in Urls : WebAlone(p) /\ increment_count(p, url) /\ UNCHANGED storeVars
  \/ \E p \in Callers : WebAlone(p) /\ get_cached_result(p) /\ UNCHANGED storeVars
  \/ \E p \in Callers, body \in Contents : WebAlone(p) /\ get_page(p, body) /\ UNCHANGED storeVars
  \/ \E p \in Callers : WebAlone(p) /\ get_page_error(p) /\ UNCHANGED storeVars
  \/ \E p \in Callers : WebAlone(p) /\ cache_result_set(p) /\ UNCHANGED storeVars
  \/ \E p \in Callers : WebAlone(p) /\ cache_result_setex(p) /\ UNCHANGED storeVars
  \/ Tick /\ UNCHANGED storeVars
WebSeqSpec == FullInit /\ [][WebSeqNext]_vars


(***************************************************************************)
(* The claims.                                                             *)
(***************************************************************************)
AllIdle == \A p \in Callers : pc[p] = "idle"
WebAllIdle == \A p \in Callers : wpc[p] = "idle"

\* C1 (WebSeqSpec): with one caller at a time, while the entry a get_page
\* call wrote for a url has not expired, the wrapped method is not called
\* again for that url, a call served from the cache returns the content that
\* was written, and the entry is gone once expiration_time seconds have
\* passed since it was written.
C1_TTLProperty ==
  \A url \in Urls :
    EntryPresent(wdb, url) =>
      /\ pop[url].fetches = 0
      /\ (wlast.url = url /\ wlast.path = "hit") =>
           wlast.out = Ok(PyStr(pop[url].content))
      /\ wdb[ResultKey(url)].ttl \in 1..expiration_time

\* C2 (Spec): every key a store call wrote since the last flushdb reads back
\* as the value stored: get_str gives the text, get_int the integer, get
\* without a conversion the bytes, whatever else was stored meanwhile.
C2_RoundTrip ==
  \A k \in DOMAIN issued :
    LET v == issued[k][1]
    IN /\ v.t = "str" => get_str(db, k) = Ok(v)
       /\ v.t = "int" => get_int(db, k) = Ok(v)
       /\ v.t = "bytes" => Cache_get(db, k, "none") = Ok(v)

\* C2, witness: get_int of the first key returned -12 after a second value
\* had been stored.
C2_Witness ==
  /\ last.op = "get_int"
  /\ last.key = UuidStr(1)
  /\ last.out = Ok(PyInt(-12))
  /\ Cardinality(DOMAIN issued) >= 2

\* C3 (Spec): the call counter of Cache.store, read as replay reads it, is
\* the number of entries into count_calls.invoker since the last flushdb:
\* 0 before any call, N after N calls, for every interleaving of the
\* callers.
C3_CounterIsCalls == CallCount(db) = ncalls

\* C3, witness: two calls by two callers, both past the incr and neither
\* finished, and the counter reads 2.
C3_Witness ==
  /\ \A p \in Callers : pc[p] = "body"
  /\ CallCount(db) = 2


\* The lines replay prints for the calls that returned: the i-th pairs the
\* arguments and the result of the i-th call.
CallLines ==
  [i \in 1..Len(completed) |->
     [input |-> StrArgs(completed[i].args),
      output |-> Repr(PyBytes(Utf8Encode(completed[i].result)))]]

\* C4 (SeqSpec): with one caller at a time and no call under way, the input
\* list and the output list are as long as the number of store calls that
\* returned, and replay prints one line per such call, in call order, each
\* pairing the arguments and the result of its call.
C4_HistoryMatchesCalls ==
  AllIdle =>
    /\ Len(RedisLRangeIn(db)) = Len(completed)
    /\ Len(RedisLRangeOut(db)) = Len(completed)
    /\ (last.op = "replay" /\ last.lines # << >>) =>
         Tail(last.lines) = CallLines

\* C5, as claimed (WebSeqSpec): after a call that wrote the entry the
\* counter of its url reads 0, and every call that follows a write of the
\* entry, hit or miss, leaves the counter 1 higher than it found it.
C5_EachGetOneHigher ==
  WebAllIdle =>
    /\ wlast.path = "miss" => CountOf(wdb, wlast.url) = 0
    /\ (wlast.path # "none" /\ wlast.saw # "none") =>
         CountOf(wdb, wlast.url) = wlast.incr

\* C5, amended (WebSeqSpec): after a call that fetched and wrote the entry
\* the counter of its url reads 0; a call served from the cache, or one
\* whose fetch failed, leaves the counter 1 higher than it found it.
C5_CounterReset ==
  WebAllIdle =>
    /\ wlast.path = "miss" => CountOf(wdb, wlast.url) = 0
    /\ wlast.path \in {"hit", "error"} =>
         CountOf(wdb, wlast.url) = wlast.incr

\* C5, witness: a call that followed an earlier write of the entry found
\* the counter at 1, missed, fetched and wrote, and the counter reads 0.
C5_Witness ==
  /\ WebAllIdle
  /\ wlast.path = "miss"
  /\ wlast.saw # "none"
  /\ wlast.incr = 2
  /\ CountOf(wdb, wlast.url) = 0

\* C6 (WebSeqSpec): a get_page call whose fetch failed ends with the
\* exception of the fetch, the result entry is what the call found (or has
\* expired since), and the counter keeps the value the call's increment gave
\* it instead of being reset to 0.
C6_FetchFailure ==
  (WebAllIdle /\ wlast.path = "error") =>
    /\ wlast.out = Raise("RequestException")
    /\ WebGet(wdb, ResultKey(wlast.url)) \in {wlast.raw, PyNone}
    /\ CountOf(wdb, wlast.url) = wlast.incr
    /\ wlast.incr >= 1

\* C6, witness: the second failed call in a row for a url; the counter
\* reads 2 and there is no entry.
C6_Witness ==
  /\ WebAllIdle
  /\ wlast.path = "error"
  /\ wlast.incr = 2
  /\ CountOf(wdb, wlast.url) = 2
  /\ ~EntryPresent(wdb, wlast.url)

GetOps == {"get", "get_str", "get_int"}

\* C7, as claimed (Spec): a get, get_str or get_int of a key Redis does not
\* hold fails with NotFound.
C7_AbsentKeyNotFound ==
  (last.op \in GetOps /\ last.raw = PyNone) => last.out = Raise("NotFound")

\* C7, amended (Spec): for a key Redis does not hold, get without a
\* conversion returns None, get_str raises AttributeError and get_int
\* raises TypeError (the conversion is applied to None).
C7_AbsentKey ==
  /\ (last.op \in GetOps /\ last.raw = PyNone) =>
       last.out = CASE last.op = "get" -> Ok(PyNone)
                    [] last.op = "get_str" -> Raise("AttributeError")
                    [] last.op = "get_int" -> Raise("TypeError")
  /\ \A k \in KeyStrs \ DOMAIN db.data :
       /\ Cache_get(db, k, "none") = Ok(PyNone)
       /\ get_str(db, k) = Raise("AttributeError")
       /\ get_int(db, k) = Raise("TypeError")

\* C7, witness: get_int of a key that a store call had returned and a
\* flushdb removed raised TypeError.
C7_Witness ==
  /\ last.op = "get_int"
  /\ last.key \in usedKeys
  /\ last.raw = PyNone
  /\ last.out = Raise("TypeError")

\* C8 (WebSpec): a call goes on to the fetch only when its lookup found no
\* entry, and a call that found one returns its content.
C8_HitOnPresence ==
  /\ \A p \in Callers :
       wpc[p] \in {"fetch", "reset", "setex"} => wframe[p].raw = PyNone
  /\ wlast.path \in {"miss", "error"} => wlast.raw = PyNone
  /\ wlast.path = "hit" => wlast.out = Ok(PyStr(Utf8Decode(wlast.raw.b).val))

\* C9 (Spec): since the last flushdb every key was set once, by one store
\* call, and still holds the value of that call; the keys store has
\* returned, and those about to be returned, are pairwise distinct.
C9_FreshKeys ==
  /\ \A k \in DOMAIN issued :
       /\ Len(issued[k]) = 1
       /\ RedisGet(db, k) = PyBytes(Encode(issued[k][1]))
  /\ \A i, j \in 1..Len(completed) :
       i # j => completed[i].result # completed[j].result
  /\ \A p \in Callers :
       pc[p] = "post" =>
         /\ \A i \in 1..Len(completed) : completed[i].result # frame[p].key
         /\ \A q \in Callers \ {p} :
              pc[q] = "post" => frame[q].key # frame[p].key

\* C9, witness: two store calls that overlapped have both returned, with
\* two keys, each holding its value.
C9_Witness ==
  /\ Len(completed) = 2
  /\ Cardinality(DOMAIN issued) = 2
  /\ completed[1].args # completed[2].args
  /\ \A i \in 1..2 :
       RedisGet(db, completed[i].result) = PyBytes(Encode(completed[i].args))

\* C10 (WebSpec): the result entry of a url, while Redis holds it, is the
\* content of the call that wrote last, whatever entry was there before.
C10_LastWriterWins ==
  \A url \in Urls :
    EntryPresent(wdb, url) =>
      wdb[ResultKey(url)].val = Utf8Encode(pop[url].content)

\* C10, witness: a call that found no entry (none had ever been written)
\* fetched and wrote after another caller had written a different content
\* in between; the entry is the content of the later write.
C10_Witness ==
  /\ wlast.path = "miss"
  /\ wlast.saw = "none"
  /\ wlast.over.by \notin {"none", pop[wlast.url].by}
  /\ wlast.over.content # wlast.out.val.s
  /\ wlast.over.content # << >>
  /\ EntryPresent(wdb, wlast.url)
  /\ wdb[ResultKey(wlast.url)].val = Utf8Encode(wlast.out.val.s)

\* C11, as claimed (WebSpec): from the moment the entry of a url becomes
\* present until it expires, all the calls served from it return the same
\* content, for every interleaving of the callers.
C11_StableWhilePresent ==
  \A url \in Urls : Cardinality(pop[url].served) <= 1

\* C11, amended (WebSpec): a call served from the cache returns, byte for
\* byte, the content of the most recent write of the entry, so two such
\* calls differ only when a write of the entry came between them.
C11_HitReadsLatestWrite ==
  wlast.path = "hit" =>
    /\ wlast.out = Ok(PyStr(wlast.over.content))
    /\ Utf8Encode(wlast.out.val.s) = wlast.raw.b
    /\ wlast.out.val.s \in pop[wlast.url].served

\* C11, witness: a call was served the content of a second write that
\* replaced the entry while it was present, after another call had been
\* served the content of the first.
C11_Witness ==
  /\ wlast.path = "hit"
  /\ wlast.out = Ok(PyStr(<<233>>))
  /\ wlast.over.content = <<233>>
  /\ pop[wlast.url].served = {<<88>>, <<233>>}

\* C12 (Spec): a replay given None, a function that is no bound method, or
\* a method of an object whose _redis is no Redis client prints nothing,
\* raises nothing and issues no backend command, whatever the database
\* holds.
C12_ReplayNoOp ==
  (last.op = "replay" /\ last.handle \in Handles \ {"bound"}) =>
    /\ last.lines = << >>
    /\ last.out = Ok(PyNone)
    /\ last.cmds = 0

\* C12, witness: a replay given an unbound function returned without
\* printing while the counter read 2 and both lists held two entries.
C12_Witness ==
  /\ last.op = "replay"
  /\ last.handle = "unbound"
  /\ last.lines = << >>
  /\ last.cmds = 0
  /\ CallCount(db) = 2
  /\ Len(RedisLRangeIn(db)) = 2
  /\ Len(RedisLRangeOut(db)) = 2

\* The databases d can have become when time passes: d itself, and d after
\* one and after two steps of the clock (no key has more than two).
Later(d) == {d, Elapse(d, TickLen), Elapse(Elapse(d, TickLen), TickLen)}

\* C13, as claimed (WebSeqSpec): after a get_page call whose fetch failed
\* the database is what the call found, but for the keys that have expired
\* meanwhile: neither the result entry nor the counter has another value.
C13_NoMutationOnFailure ==
  (WebAllIdle /\ wlast.path = "error") => wdb \in Later(wlast.pre)

\* C13, amended (WebSeqSpec): after a get_page call whose fetch failed the
\* database is what the call found with the counter of its url incremented
\* by 1, but for the keys that have expired meanwhile: the result entry and
\* every key of another url are untouched.
C13_OnlyCounterOnFailure ==
  (WebAllIdle /\ wlast.path = "error") =>
    wdb \in Later(WebIncr(wlast.pre, make_key(prefix_count, wlast.url)))

\* C13, witness: a failed call for a url whose entry holds an empty content
\* (so the lookup went on to the fetch) while the other url has an entry
\* too; both entries are still there and the counter reads 1.
C13_Witness ==
  /\ WebAllIdle
  /\ wlast.path = "error"
  /\ wlast.raw = PyBytes(<< >>)
  /\ EntryPresent(wdb, wlast.url)
  /\ \A url \in Urls : EntryPresent(wlast.pre, url)
  /\ CountOf(wlast.pre, wlast.url) = 0
  /\ CountOf(wdb, wlast.url) = 1

\* C14 (SeqSpec): the backend operations of one store call happen in the
\* order rpush to the inputs, incr of the counter, set of the value, rpush
\* to the outputs.  Before the incr the input list is one longer than the
\* counter reads and no value is written; between the incr and the set the
\* counter has caught up and the value is still missing; between the set
\* and the second rpush the value is under its key and the output list is
\* one shorter than the keys written; with no call under way both pairs
\* agree.
C14_OrderOfEffects ==
  \A p \in Callers :
    LET ins == Len(RedisLRangeIn(db))
        outs == Len(RedisLRangeOut(db))
        keys == Cardinality(DOMAIN db.data)
    IN /\ pc[p] = "idle" /\ Alone(p) => ins = CallCount(db) /\ keys = outs
       /\ pc[p] = "count" => ins = CallCount(db) + 1 /\ keys = outs
       /\ pc[p] = "body" => ins = CallCount(db) /\ keys = outs
       /\ pc[p] = "post" =>
            /\ ins = CallCount(db)
            /\ keys = outs + 1
            /\ RedisGet(db, frame[p].key) = PyBytes(Encode(frame[p].data))

\* C14, witness: the second store call since the flush has logged its
\* arguments, incremented the counter to 2 and written its value; its key
\* is not yet in the output list.
C14_Witness ==
  \E p \in Callers :
    /\ pc[p] = "post"
    /\ Len(RedisLRangeIn(db)) = 2
    /\ CallCount(db) = 2
    /\ Cardinality(DOMAIN db.data) = 2
    /\ RedisLRangeOut(db) # << >>
    /\ \A i \in 1..Len(RedisLRangeOut(db)) :
         RedisLRangeOut(db)[i] # Utf8Encode(frame[p].key)

\* C15 (SeqSpec): whenever no store call is between its rpush to the inputs
\* and its rpush to the outputs, the two lists are equally long, also after
\* calls that ended with an error of the backend.
C15_EqualLength ==
  (\A p \in Callers : pc[p] \notin {"count", "body", "post"}) =>
    Len(RedisLRangeIn(db)) = Len(RedisLRangeOut(db))

\* The store calls that have appended their input and not yet their output.
BetweenAppends == {p \in Callers : pc[p] \in {"count", "body", "post"}}

\* C16 (Spec): in every interleaving of the callers the output list is
\* never longer than the input list, and the input list is longer by at
\* most the number of store calls between their two appends.
C16_TrailingUnmatched ==
  /\ Len(RedisLRangeOut(db)) <= Len(RedisLRangeIn(db))
  /\ Len(RedisLRangeIn(db)) - Len(RedisLRangeOut(db))
       <= Cardinality(BetweenAppends)

\* C17, as claimed (Spec): for every index in both lists the output is the
\* result of the store call whose arguments are the input at that index,
\* in every interleaving of the callers.
C17_PairAlignment ==
  \A i \in 1..Min(Len(RedisLRangeIn(db)), Len(RedisLRangeOut(db))) :
    \E j \in 1..Len(completed) :
      /\ RedisLRangeOut(db)[i] = Utf8Encode(completed[j].result)
      /\ RedisLRangeIn(db)[i] = Utf8Encode(StrArgs(completed[j].args))

\* C17, amended (Spec): each list on its own is in the order of its
\* appends: the input list holds the arguments of the calls in the order
\* they logged them, the output list the results of the calls in the order
\* they returned; the two orders are independent of each other.
C17_EachLogInAppendOrder ==
  /\ RedisLRangeIn(db) =
       [i \in 1..Len(started) |-> Utf8Encode(StrArgs(started[i]))]
  /\ RedisLRangeOut(db) =
       [i \in 1..Len(completed) |-> Utf8Encode(completed[i].result)]

\* C17, witness: two overlapping store calls with different arguments have
\* both returned, the one that logged its arguments second returning
\* first: each output stands at the index of the other call's input.
C17_Witness ==
  /\ AllIdle
  /\ Len(started) = 2
  /\ Len(completed) = 2
  /\ started[1] # started[2]
  /\ completed[1].args = started[2]
  /\ completed[2].args = started[1]
  /\ Len(RedisLRangeIn(db)) = 2
  /\ Len(RedisLRangeOut(db)) = 2

\* C18 (WebSeqSpec): with one caller at a time the request counter of a url
\* reads the number of get_page calls for it that ended since its entry
\* was last written (all of them when it never was): 0 right after a call
\* that wrote the entry, then one more for every call served from the
\* cache and every call whose fetch failed; a call under way has been
\* counted already.
C18_CounterMeaning ==
  \A url \in Urls :
    /\ WebAllIdle => CountOf(wdb, url) = pop[url].gets
    /\ \A p \in Callers :
         (wpc[p] \in {"lookup", "fetch"} /\ wframe[p].url = url) =>
           CountOf(wdb, url) = pop[url].gets + 1

\* C18, witness: since the entry of a url was written one call was served
\* from it and, the entry having expired, one call failed to fetch; the
\* counter reads 2.
C18_Witness ==
  /\ WebAllIdle
  /\ wlast.path = "error"
  /\ wlast.raw = PyNone
  /\ pop[wlast.url].by # "none"
  /\ pop[wlast.url].served # {}
  /\ pop[wlast.url].gets = 2
  /\ CountOf(wdb, wlast.url) = 2

\* C19 (WebSeqSpec): the deadline of an entry is fixed when it is written:
\* while Redis holds the entry its seconds left and the seconds passed since
\* its write add up to expiration_time, however many calls were served from
\* it, and once expiration_time seconds have passed since the write the
\* entry is gone, so that the next lookup finds nothing and goes on to the
\* fetch.
C19_FixedExpiry ==
  \A url \in Urls :
    /\ EntryPresent(wdb, url) =>
         wdb[ResultKey(url)].ttl = expiration_time - pop[url].age
    /\ (pop[url].by # "none" /\ pop[url].age >= expiration_time) =>
         /\ ~EntryPresent(wdb, url)
         /\ cached_value(WebGet(wdb, ResultKey(url))) = PyNone

\* C19, witness: an entry was written, a call was served from it, and
\* expiration_time seconds after the write the entry is gone; the next call
\* found nothing and has called the fetch.
C19_Witness ==
  \E p \in Callers :
    /\ wpc[p] = "reset"
    /\ wframe[p].raw = PyNone
    /\ pop[wframe[p].url].by # "none"
    /\ pop[wframe[p].url].served # {}
    /\ pop[wframe[p].url].gets >= 1
    /\ pop[wframe[p].url].age = expiration_time
    /\ pop[wframe[p].url].fetches = 1
    /\ ~EntryPresent(wdb, wframe[p].url)

\* C20 (Spec): a step that constructs a Cache (it ends as "Cache" and moves
\* no caller) leaves the call counter absent (it reads 0), both lists empty
\* and every key uuid4 has produced so far, on whatever instance, absent;
\* and a step in which the counter reads less than before, or a list is
\* shorter than before, is the construction of a Cache.
C20_ConstructionClears ==
  [][/\ (last'.op = "Cache" /\ pc' = pc) =>
          /\ RedisExistsCalls(db') = 0
          /\ CallCount(db') = 0
          /\ RedisLRangeIn(db') = << >>
          /\ RedisLRangeOut(db') = << >>
          /\ \A k \in usedKeys : RedisGet(db', k) = PyNone
     /\ (\/ CallCount(db') < CallCount(db)
         \/ Len(RedisLRangeIn(db')) < Len(RedisLRangeIn(db))
         \/ Len(RedisLRangeOut(db')) < Len(RedisLRangeOut(db))) =>
          (last'.op = "Cache" /\ pc' = pc)]_vars

\* C20, witness: a Cache has just been constructed by one caller while the
\* other is inside a store call; two keys had been produced before, and the
\* database holds nothing.
C20_Witness ==
  /\ last.op = "Cache"
  /\ Cardinality(usedKeys) = 2
  /\ \E p \in Callers : pc[p] = "post"
  /\ db = EmptyDb
  /\ \A k \in usedKeys : Cache_get(db, k, "none") = Ok(PyNone)

====
